---- MODULE Spec2Model ----
(***************************************************************************)
(* static_router: Markdown pages with YAML frontmatter, loaded from a      *)
(* directory (StaticContentLoader), indexed by URL path (StaticRouter) and *)
(* served through one shared request handler (page_handler).               *)
(*                                                                         *)
(* A Python str is a sequence of atoms.  The atom "-" is the character     *)
(* '-', "/" is the character '/'; every other atom is a run of characters  *)
(* that holds neither '-' nor '/' nor a piece of another atom, so that     *)
(* str.split, str.replace and str.endswith act on the sequence of atoms as *)
(* they act on the characters.                                             *)
(***************************************************************************)
EXTENDS Integers, Sequences, FiniteSets, TLC

VARIABLES
    p_md,             \* from_markdown_string: the md argument
    p_path,           \* from_markdown_string: the path argument
    p_result,         \* what from_markdown_string returned or raised
    p_got,            \* the last attribute read on the returned Page
    content_loader,   \* the ContentLoader handed to StaticRouter / register
    fs,               \* the .md files under the directory, in rglob's order
    default_template, \* the default_template keyword argument
    loaded,           \* outcome of the last direct call of content_loader.load()
    router,           \* the StaticRouter: its _pages (keys in insertion order)
    router0,          \* the StaticRouter as its constructor left it
    routes,           \* the routes of the FastAPI app, in registration order
    registered,       \* number of StaticRouter.register calls on the app
    response,         \* outcome of the last page_handler call
    first,            \* path |-> template file of the first 200 response for it
    t_pc,             \* concurrent requests: each thread's place in page_handler
    t_falsy,          \* concurrent requests: each thread's value of `not page.template`
    t_resp            \* concurrent requests: each thread's response

pvars == <<p_md, p_path, p_result, p_got>>
lvars == <<content_loader, fs, default_template>>
rvars == <<loaded, router, router0, routes, registered, response, first>>
tvars == <<t_pc, t_falsy, t_resp>>
vars == <<pvars, lvars, rvars, tvars>>

(***************************************************************************)
(* Bounds of the model.                                                    *)
(***************************************************************************)
MaxMdLen == 6       \* longest md string drawn over the characters '-' and 'a'
MaxEntries == 2     \* most frontmatter lines of a structured document
MaxFiles == 2       \* most .md files under the directory
MaxCustom == 2      \* most pages a custom ContentLoader returns
MaxRegister == 2    \* most register calls on one app
NThreads == 3       \* concurrent requests to one page

(***************************************************************************)
(* Python values: str, None, dict, and a bound method of the model class.  *)
(***************************************************************************)
Str(s) == [t |-> "str", v |-> s]
NoneVal == [t |-> "none", v |-> <<>>]
Dict(d) == [t |-> "dict", v |-> d]
Method(name) == [t |-> "method", v |-> <<name>>]

\* bool(v): None, "" and {} are falsy
Truthy(v) ==
    CASE v.t = "none" -> FALSE
      [] v.t = "str" -> v.v # <<>>
      [] v.t = "dict" -> DOMAIN v.v # {}
      [] OTHER -> TRUE

\* str(v) as an f-string interpolates it
Format(v) == IF v.t = "none" THEN <<"None">> ELSE v.v

(***************************************************************************)
(* str methods.                                                            *)
(***************************************************************************)
EndsWith(s, suffix) ==
    /\ Len(s) >= Len(suffix)
    /\ SubSeq(s, Len(s) - Len(suffix) + 1, Len(s)) = suffix

StartsWith(s, prefix) ==
    /\ Len(s) >= Len(prefix)
    /\ SubSeq(s, 1, Len(prefix)) = prefix

RECURSIVE Find(_, _, _)
\* str.find(sub, i): the first place at or after i where sub occurs, 0 if none
Find(s, sub, i) ==
    IF i + Len(sub) - 1 > Len(s) THEN 0
    ELSE IF SubSeq(s, i, i + Len(sub) - 1) = sub THEN i
    ELSE Find(s, sub, i + 1)

RECURSIVE Split(_, _, _)
\* str.split(sep, maxsplit): leftmost non-overlapping occurrences of sep
Split(s, sep, maxsplit) ==
    LET i == Find(s, sep, 1) IN
    IF maxsplit = 0 \/ i = 0 THEN <<s>>
    ELSE <<SubSeq(s, 1, i - 1)>>
           \o Split(SubSeq(s, i + Len(sep), Len(s)), sep, maxsplit - 1)

RECURSIVE Replace(_, _, _)
\* str.replace(old, new) for a non-empty old: every non-overlapping occurrence
Replace(s, old, new) ==
    LET i == Find(s, old, 1) IN
    IF i = 0 THEN s
    ELSE SubSeq(s, 1, i - 1) \o new
           \o Replace(SubSeq(s, i + Len(old), Len(s)), old, new)

RECURSIVE Count(_, _)
\* str.count(sub): the number of non-overlapping occurrences of sub
Count(s, sub) ==
    IF Len(s) < Len(sub) THEN 0
    ELSE IF SubSeq(s, 1, Len(sub)) = sub
         THEN 1 + Count(SubSeq(s, Len(sub) + 1, Len(s)), sub)
         ELSE Count(Tail(s), sub)

(***************************************************************************)
(* Page (models/page.py).                                                  *)
(***************************************************************************)
Delim == <<"-", "-", "-">>
MaxSplit == 2

\* the frontmatter lines the documents of the model are written with
EntryLines ==
    { "title: t\n", "template: post\n", "template: ''\n", "template:\n",
      "content: c\n", "path: p\n", "frontmatter: f\n", "copy: k\n" }

EntryKey(line) ==
    CASE line = "title: t\n" -> "title"
      [] line \in {"template: post\n", "template: ''\n", "template:\n"} -> "template"
      [] line = "content: c\n" -> "content"
      [] line = "path: p\n" -> "path"
      [] line = "frontmatter: f\n" -> "frontmatter"
      [] line = "copy: k\n" -> "copy"

EntryValue(line) ==
    CASE line = "title: t\n" -> Str(<<"t">>)
      [] line = "template: post\n" -> Str(<<"post">>)
      [] line = "template: ''\n" -> Str(<<>>)
      [] line = "template:\n" -> NoneVal
      [] line = "content: c\n" -> Str(<<"c">>)
      [] line = "path: p\n" -> Str(<<"p">>)
      [] line = "frontmatter: f\n" -> Str(<<"f">>)
      [] line = "copy: k\n" -> Str(<<"k">>)

\* dict item assignment d[name] = value
SetItem(d, name, value) ==
    [k \in DOMAIN d \cup {name} |-> IF k = name THEN value ELSE d[k]]

RECURSIVE YamlMapping(_, _)
\* a YAML block mapping, one key per line; a repeated key keeps its last value
YamlMapping(lines, d) ==
    IF lines = <<>> THEN d
    ELSE YamlMapping(Tail(lines),
                     SetItem(d, EntryKey(Head(lines)), EntryValue(Head(lines))))

\* yaml.safe_load: an empty document is None, a document of key: value lines
\* a dict, any other text of the model (runs of '-' and 'a') a scalar or a
\* sequence, never a mapping
YamlSafeLoad(fm) ==
    IF fm = <<>> THEN NoneVal
    ELSE IF \A i \in 1..Len(fm) : fm[i] \in EntryLines
         THEN Dict(YamlMapping(fm, <<>>))
         ELSE Str(fm)

\* the md_renderer: Markdown text to HTML
MdRenderer(content) == <<"<p>">> \o content \o <<"</p>">>

CoreFields == {"frontmatter", "content", "path"}
\* attributes Page inherits from pydantic.BaseModel
ClassAttrs == {"copy"}

\* variant of DropFirst: the slice [1:] forgotten
DropFirstKeepAll(parts) == parts

\* md.split("---", 2)[1:]
DropFirst(parts) == Tail(parts)

\* path += "/" unless path.endswith("/")
NormalizePath(path) == IF EndsWith(path, <<"/">>) THEN path ELSE path \o <<"/">>

FrontmatterError(path) ==
    [kind |-> "ValueError",
     message |-> <<"Page ">> \o path \o <<" must have frontmatter.">>]

from_markdown_string(md, path) ==
    LET rest == DropFirst(Split(md, Delim, MaxSplit)) IN
    IF Len(rest) # 2 THEN FrontmatterError(path)
    ELSE LET fm == YamlSafeLoad(rest[1])
             frontmatter == IF ~Truthy(fm) THEN Dict(<<>>) ELSE fm
         IN  IF frontmatter.t # "dict"
             THEN [kind |-> "ValidationError", message |-> <<"frontmatter">>]
             ELSE [kind |-> "page",
                   page |-> [frontmatter |-> frontmatter.v,
                             content |-> MdRenderer(rest[2]),
                             path |-> NormalizePath(path)]]

\* variant of FrontmatterGet: the key looked up among the fields only
FrontmatterGetFields(page, key) == NoneVal

\* self.frontmatter.get(key)
FrontmatterGet(page, key) ==
    IF key \in DOMAIN page.frontmatter THEN page.frontmatter[key] ELSE NoneVal

\* attribute read page.<key>: the instance's fields, then the class, and
\* only then Page.__getattr__
Page_getattr(page, key) ==
    CASE key = "frontmatter" -> Dict(page.frontmatter)
      [] key = "content" -> Str(page.content)
      [] key = "path" -> Str(page.path)
      [] key \in ClassAttrs -> Method(key)
      [] OTHER -> FrontmatterGet(page, key)

\* variant of Page_setattr: the frontmatter replaced, not updated
Page_setattrReplace(page, name, value) ==
    [page EXCEPT !.frontmatter = (name :> value)]

\* attribute write page.<name> = value: Page.__setattr__
Page_setattr(page, name, value) ==
    [page EXCEPT !.frontmatter = SetItem(page.frontmatter, name, value)]

(***************************************************************************)
(* Inputs of Page.from_markdown_string.                                    *)
(***************************************************************************)
SeqsUpTo(S, n) == UNION {[1..k -> S] : k \in 0..n}

\* every md string of at most MaxMdLen characters over '-' and 'a'
CharDocs == SeqsUpTo({"-", "a"}, MaxMdLen)

Bodies == {<<"text">>, <<"text", "-", "-", "-", "more">>}

\* documents with a frontmatter block of at most MaxEntries lines
StructDocs ==
    {Delim \o es \o Delim \o b : es \in SeqsUpTo(EntryLines, MaxEntries), b \in Bodies}

PagePaths ==
    {<<>>, <<"/">>, <<"/", "blog">>, <<"/", "blog", "/">>, <<"blog">>}

AttrNames ==
    {"title", "template", "content", "path", "frontmatter", "copy", "missing"}

NotCalled == [kind |-> "none"]
NoRead == [key |-> "", value |-> NoneVal]
NoResponse == [status |-> 0, path |-> <<>>, template |-> <<>>]
NoRouter == [state |-> "none"]
NoLoader == [kind |-> "none"]

PageIdle ==
    /\ p_md = <<>> /\ p_path = <<>> /\ p_result = NotCalled /\ p_got = NoRead

RouterIdle ==
    /\ loaded = NotCalled /\ router = NoRouter /\ router0 = NoRouter
    /\ routes = <<>> /\ registered = 0 /\ response = NoResponse /\ first = <<>>

ThreadsIdle ==
    /\ t_pc = <<>> /\ t_falsy = <<>> /\ t_resp = <<>>

InitPage ==
    /\ p_md \in CharDocs \cup StructDocs
    /\ p_path \in PagePaths
    /\ p_result = NotCalled
    /\ p_got = NoRead
    /\ content_loader = NoLoader /\ fs = <<>> /\ default_template = <<"default">>
    /\ RouterIdle
    /\ ThreadsIdle

\* Page.from_markdown_string(p_md, path=p_path)
FromMarkdownString ==
    /\ p_result = NotCalled
    /\ p_result' = from_markdown_string(p_md, p_path)
    /\ UNCHANGED <<p_md, p_path, p_got, lvars, rvars, tvars>>

\* page.<key> on the Page that from_markdown_string returned
GetAttr(key) ==
    /\ p_result.kind = "page"
    /\ p_got' = [key |-> key, value |-> Page_getattr(p_result.page, key)]
    /\ UNCHANGED <<p_md, p_path, p_result, lvars, rvars, tvars>>

NextPage ==
    \/ FromMarkdownString
    \/ \E key \in AttrNames : GetAttr(key)

SpecPage == InitPage /\ [][NextPage]_vars

(***************************************************************************)
(* StaticContentLoader (loaders/static.py).                                *)
(***************************************************************************)
RECURSIVE PurePath(_)
\* pathlib.Path(directory): trailing separators are dropped
PurePath(directory) ==
    IF Len(directory) > 1 /\ EndsWith(directory, <<"/">>)
    THEN PurePath(SubSeq(directory, 1, Len(directory) - 1))
    ELSE directory

\* a path that Path(directory).rglob("*.md") yields
FilePath(directory, rel) == PurePath(directory) \o <<"/">> \o rel \o <<".md">>

\* path.with_suffix("")
WithSuffix(path) ==
    IF EndsWith(path, <<".md">>) THEN SubSeq(path, 1, Len(path) - 1) ELSE path

\* str(path.with_suffix("")).replace(self.directory, "") + "/", and the
\* rewrite of "/index/"
PagePath(directory, path) ==
    LET page_path == Replace(WithSuffix(path), directory, <<>>) \o <<"/">> IN
    IF page_path = <<"/", "index", "/">> THEN <<"/">> ELSE page_path

\* variant of AbortLoad: the error swallowed, the pages so far returned
AbortLoadPartial(err, pages) == [kind |-> "returned", pages |-> pages]

\* an exception of from_markdown_string leaves load: nothing is returned
AbortLoad(err, pages) == [kind |-> "raised", error |-> err]

RECURSIVE LoadLoop(_, _, _)
\* the loop of StaticContentLoader.load over the files in rglob's order
LoadLoop(directory, files, pages) ==
    IF files = <<>> THEN [kind |-> "returned", pages |-> pages]
    ELSE LET file == Head(files)
             r == from_markdown_string(
                      file.md, PagePath(directory, FilePath(directory, file.rel)))
         IN  IF r.kind # "page" THEN AbortLoad(r, pages)
             ELSE LoadLoop(directory, Tail(files), Append(pages, r.page))

\* content_loader.load(): the static loader, or a custom ContentLoader
\* that returns its own list of pages
Load(loader, files) ==
    IF loader.kind = "static"
    THEN LoadLoop(loader.directory, files, <<>>)
    ELSE [kind |-> "returned", pages |-> loader.pages]

(***************************************************************************)
(* StaticRouter (main.py).                                                 *)
(***************************************************************************)
RECURSIVE DictOrder(_, _)
\* key order of {page.path: page for page in pages}: first insertion
DictOrder(pages, order) ==
    IF pages = <<>> THEN order
    ELSE DictOrder(Tail(pages),
                   IF \E i \in 1..Len(order) : order[i] = Head(pages).path
                   THEN order ELSE Append(order, Head(pages).path))

RECURSIVE DictPagesFirst(_, _)
\* variant of DictPages: a path already indexed keeps its first page
DictPagesFirst(pages, d) ==
    IF pages = <<>> THEN d
    ELSE DictPagesFirst(Tail(pages),
                        IF Head(pages).path \in DOMAIN d THEN d
                        ELSE SetItem(d, Head(pages).path, Head(pages)))

RECURSIVE DictPages(_, _)
\* values of {page.path: page for page in pages}: last assignment
DictPages(pages, d) ==
    IF pages = <<>> THEN d
    ELSE DictPages(Tail(pages), SetItem(d, Head(pages).path, Head(pages)))

\* StaticRouter.__init__ given what content_loader.load() did
NewRouter(result) ==
    IF result.kind = "raised" THEN [state |-> "failed", error |-> result.error]
    ELSE [state |-> "ok",
          order |-> DictOrder(result.pages, <<>>),
          _pages |-> DictPages(result.pages, <<>>)]

\* StaticRouter.pages: list(self._pages.values())
Pages(r) == [i \in 1..Len(r.order) |-> r._pages[r.order[i]]]

Route(path) == [method |-> "GET", path |-> path, endpoint |-> "page_handler"]

\* variant of RegisterPaths: the last indexed path left out
RegisterPathsButLast(r) == SubSeq(r.order, 1, Len(r.order) - 1)

\* the paths StaticRouter.register walks: for path in self._pages
RegisterPaths(r) == r.order

\* variant of DefaultTemplateValue: the name "default" written in, the
\* configured one ignored
DefaultTemplateLiteral(page, default) == Str(<<"default">>)

\* variant of DefaultTemplateValue: the default appended to what the page
\* holds at the time of the write
DefaultTemplateAppended(page, default) ==
    Str(Page_getattr(page, "template").v \o default)

\* the value page_handler assigns to page.template
DefaultTemplateValue(page, default) == Str(default)

\* f"{page.template}.html"
TemplateFile(page) == Format(Page_getattr(page, "template")) \o <<".html">>

\* the page as page_handler leaves it
WithTemplate(page, default) ==
    IF ~Truthy(Page_getattr(page, "template"))
    THEN Page_setattr(page, "template", DefaultTemplateValue(page, default))
    ELSE page

NotFound(path) == [status |-> 404, path |-> path, template |-> <<>>]

\* StaticRouter.page_handler for a request of `path`, run to its end
PageHandler(r, default, path) ==
    IF path \notin DOMAIN r._pages
    THEN [router |-> r, response |-> NotFound(path)]
    ELSE LET page == WithTemplate(r._pages[path], default) IN
         [router |-> [r EXCEPT !._pages[path] = page],
          response |-> [status |-> 200, path |-> path,
                        template |-> TemplateFile(page)]]

(***************************************************************************)
(* Inputs of the loader and the router.                                    *)
(***************************************************************************)
Directories == {<<"content">>, <<"content", "/">>}

\* file names relative to the directory, without the .md suffix
Rels ==
    { <<"index">>,
      <<"blog", "/", "2021", "-", "01", "-", "01">>,
      <<"blog", "/", "index">>,
      <<"blog", "/", "content">> }

DocPlain == Delim \o <<"title: t\n">> \o Delim \o <<"text">>
DocEmptyTemplate == Delim \o <<"template: ''\n">> \o Delim \o <<"text">>
DocNoFrontmatter == <<"text">>
FileDocs == {DocPlain, DocEmptyTemplate, DocNoFrontmatter}

Files == [rel : Rels, md : FileDocs]

FileLists ==
    {f \in SeqsUpTo(Files, MaxFiles) :
        \A i, j \in 1..Len(f) : i # j => f[i].rel # f[j].rel}

\* pages a custom ContentLoader may return
CustomPages ==
    [frontmatter : {<<>>, [template |-> Str(<<"post">>)], [template |-> NoneVal]},
     content : {<<"<p>", "text", "</p>">>},
     path : {<<"/">>, <<"/", "a", "/">>}]

Loaders ==
    [kind : {"static"}, directory : Directories]
      \cup [kind : {"custom"}, pages : SeqsUpTo(CustomPages, MaxCustom)]

DefaultTemplates == {<<"default">>, <<"base">>}

RequestPaths(r) == DOMAIN r._pages \cup {<<"/", "missing", "/">>}

Init ==
    /\ PageIdle
    /\ content_loader \in Loaders
    /\ fs \in IF content_loader.kind = "static" THEN FileLists ELSE {<<>>}
    /\ default_template \in DefaultTemplates
    /\ RouterIdle
    /\ ThreadsIdle

\* content_loader.load(), called by the host
LoadCall ==
    /\ loaded' = Load(content_loader, fs)
    /\ UNCHANGED <<pvars, lvars, router, router0, routes, registered,
                   response, first, tvars>>

\* StaticRouter(content_loader, default_template=default_template)
Construct ==
    /\ router.state = "none"
    /\ router' = NewRouter(Load(content_loader, fs))
    /\ router0' = router'
    /\ UNCHANGED <<pvars, lvars, loaded, routes, registered, response, first, tvars>>

\* sr.register(app)
Register ==
    /\ router.state = "ok"
    /\ registered < MaxRegister
    /\ routes' = routes \o [i \in 1..Len(RegisterPaths(router)) |->
                                Route(RegisterPaths(router)[i])]
    /\ registered' = registered + 1
    /\ UNCHANGED <<pvars, lvars, loaded, router, router0, response, first, tvars>>

\* register(app, content_loader=content_loader, default_template=...)
RegisterFn ==
    /\ router.state = "none"
    /\ registered < MaxRegister
    /\ LET sr == NewRouter(Load(content_loader, fs)) IN
       /\ router' = sr
       /\ router0' = sr
       /\ IF sr.state = "ok"
          THEN /\ routes' = routes \o [i \in 1..Len(RegisterPaths(sr)) |->
                                           Route(RegisterPaths(sr)[i])]
               /\ registered' = registered + 1
          ELSE UNCHANGED <<routes, registered>>
    /\ UNCHANGED <<pvars, lvars, loaded, response, first, tvars>>

\* a GET request of `path` reaches page_handler
Request(path) ==
    /\ router.state = "ok"
    /\ LET out == PageHandler(router, default_template, path) IN
       /\ router' = out.router
       /\ response' = out.response
       /\ first' = IF out.response.status = 200 /\ path \notin DOMAIN first
                   THEN SetItem(first, path, out.response.template)
                   ELSE first
    /\ UNCHANGED <<pvars, lvars, loaded, router0, routes, registered, tvars>>

Next ==
    \/ LoadCall
    \/ Construct
    \/ Register
    \/ RegisterFn
    \/ \E path \in (IF router.state = "ok" THEN RequestPaths(router) ELSE {}) :
          Request(path)

Spec == Init /\ [][Next]_vars

(***************************************************************************)
(* Concurrent requests to one page: page_handler runs in NThreads threads  *)
(* of the host, and its reads and its write of page.template interleave.   *)
(***************************************************************************)
Threads == 1..NThreads
RacePath == <<"/">>

RacePages ==
    [frontmatter : {<<>>, [template |-> Str(<<"post">>)], [template |-> Str(<<>>)],
                    [template |-> NoneVal], [title |-> Str(<<"t">>)]},
     content : {<<"<p>", "text", "</p>">>},
     path : {RacePath}]

InitRace ==
    /\ PageIdle
    /\ \E page \in RacePages : content_loader = [kind |-> "custom", pages |-> <<page>>]
    /\ fs = <<>>
    /\ default_template \in DefaultTemplates
    /\ loaded = NotCalled
    /\ router = NewRouter(Load(content_loader, fs))
    /\ router0 = router
    /\ routes = <<>> /\ registered = 0 /\ response = NoResponse /\ first = <<>>
    /\ t_pc = [t \in Threads |-> "start"]
    /\ t_falsy = [t \in Threads |-> FALSE]
    /\ t_resp = [t \in Threads |-> NoResponse]

\* page = self._pages[page_path]; if not page.template:
T_Check(t) ==
    /\ t_pc[t] = "start"
    /\ LET falsy == ~Truthy(Page_getattr(router._pages[RacePath], "template")) IN
       /\ t_falsy' = [t_falsy EXCEPT ![t] = falsy]
       /\ t_pc' = [t_pc EXCEPT ![t] = IF falsy THEN "set" ELSE "render"]
    /\ UNCHANGED <<pvars, lvars, rvars, t_resp>>

\* page.template = self._default_template
T_Set(t) ==
    /\ t_pc[t] = "set"
    /\ LET page == router._pages[RacePath] IN
       router' = [router EXCEPT !._pages[RacePath] =
                     Page_setattr(page, "template",
                                  DefaultTemplateValue(page, default_template))]
    /\ t_pc' = [t_pc EXCEPT ![t] = "render"]
    /\ UNCHANGED <<pvars, lvars, loaded, router0, routes, registered, response,
                   first, t_falsy, t_resp>>

\* templates.TemplateResponse(f"{page.template}.html", ...)
T_Render(t) ==
    /\ t_pc[t] = "render"
    /\ t_resp' = [t_resp EXCEPT ![t] =
                     [status |-> 200, path |-> RacePath,
                      template |-> TemplateFile(router._pages[RacePath])]]
    /\ t_pc' = [t_pc EXCEPT ![t] = "done"]
    /\ UNCHANGED <<pvars, lvars, rvars, t_falsy>>

NextRace ==
    \E t \in Threads :
        \/ T_Check(t)
        \/ T_Set(t)
        \/ T_Render(t)

SpecRace == InitRace /\ [][NextRace]_vars

(***************************************************************************)
(* Properties.                                                             *)
(***************************************************************************)

\* C1: from_markdown_string raises the missing-frontmatter ValueError, whose
\* message names the path argument, exactly when md holds fewer than two
\* "---" delimiters, whatever else md holds.
C1_FrontmatterErrorIffFewerThanTwoDelims ==
    p_result # NotCalled =>
        ( (/\ p_result.kind = "ValueError"
           /\ p_result.message = <<"Page ">> \o p_path \o <<" must have frontmatter.">>)
          <=> Count(p_md, Delim) < 2 )

C1_Witness ==
    /\ p_result.kind = "ValueError"
    /\ Count(p_md, Delim) = 1
    /\ Len(p_md) > Len(Delim)

\* the mapping the frontmatter block of md holds: the text between the first
\* two delimiters
BlockOf(md) == Split(md, Delim, MaxSplit)[2]
IsMappingBlock(md) ==
    /\ Count(md, Delim) >= 2
    /\ BlockOf(md) # <<>>
    /\ \A i \in 1..Len(BlockOf(md)) : BlockOf(md)[i] \in EntryLines
KeysOf(md) == {EntryKey(BlockOf(md)[i]) : i \in 1..Len(BlockOf(md))}
\* the value of key k in the block: that of the last line that sets k
ValueOf(md, k) ==
    LET last == CHOOSE i \in 1..Len(BlockOf(md)) :
                    /\ EntryKey(BlockOf(md)[i]) = k
                    /\ \A j \in (i + 1)..Len(BlockOf(md)) : EntryKey(BlockOf(md)[j]) # k
    IN  EntryValue(BlockOf(md)[last])

\* C7 as stated: every key of the frontmatter block, the keys content, path
\* and frontmatter included, reads back as an attribute with its frontmatter
\* value, and a name that is neither a key nor a core field reads as None.
C7_EveryKeyReadsItsFrontmatterValue ==
    (p_got # NoRead /\ IsMappingBlock(p_md)) =>
        /\ p_got.key \in KeysOf(p_md) => p_got.value = ValueOf(p_md, p_got.key)
        /\ (p_got.key \notin KeysOf(p_md) /\ p_got.key \notin CoreFields)
              => p_got.value = NoneVal

\* C7 amended: a key of the frontmatter block that is not the name of an
\* attribute the Page object has (the core fields frontmatter, content, path
\* and the attributes of the model base class) reads back with its
\* frontmatter value; such a name that is no key reads as None; a core field
\* name reads the field, whatever the frontmatter holds under it.
C7_KeysOtherThanAttributesReadTheirValue ==
    (p_got # NoRead /\ IsMappingBlock(p_md)) =>
        /\ p_got.key \notin CoreFields \cup ClassAttrs =>
              p_got.value = IF p_got.key \in KeysOf(p_md)
                            THEN ValueOf(p_md, p_got.key) ELSE NoneVal
        /\ p_got.key = "content" => p_got.value = Str(p_result.page.content)
        /\ p_got.key = "path" => p_got.value = Str(p_result.page.path)
        /\ p_got.key = "frontmatter" =>
              /\ p_got.value.t = "dict"
              /\ DOMAIN p_got.value.v = KeysOf(p_md)
              /\ \A k \in KeysOf(p_md) : p_got.value.v[k] = ValueOf(p_md, k)

C7_Witness ==
    /\ IsMappingBlock(p_md)
    /\ Len(BlockOf(p_md)) = 2
    /\ p_got.key = "title"
    /\ p_got.value = Str(<<"t">>)

\* C2: every Page that StaticContentLoader.load returns, for a directory
\* given with or without a trailing separator, has a path that begins and
\* ends with "/".
C2_PathsBeginAndEndWithSlash ==
    (content_loader.kind = "static" /\ loaded.kind = "returned") =>
        \A i \in 1..Len(loaded.pages) :
            /\ StartsWith(loaded.pages[i].path, <<"/">>)
            /\ EndsWith(loaded.pages[i].path, <<"/">>)

\* the URL path C3 gives the file <directory>/<rel>.md
UrlOf(rel) == IF rel = <<"index">> THEN <<"/">> ELSE <<"/">> \o rel \o <<"/">>

\* C3: with the directory "content", load serves each file
\* content/<rel>.md at /<rel>/, content/index.md at /, and an index.md of a
\* subdirectory at /<subdirectory>/index/.
C3_FileServedAtItsRelativePath ==
    (/\ content_loader.kind = "static"
     /\ content_loader.directory = <<"content">>
     /\ loaded.kind = "returned") =>
        /\ Len(loaded.pages) = Len(fs)
        /\ \A i \in 1..Len(fs) : loaded.pages[i].path = UrlOf(fs[i].rel)

\* the number of routes of the app equal to `route`
RouteCount(route) == Cardinality({i \in 1..Len(routes) : routes[i] = route})

\* C4: each register call installs exactly one GET route per indexed path,
\* bound to page_handler, and no other route; a request of a path that is
\* not indexed is answered 404, and only such a request is.
C4_OneRoutePerPathAnd404 ==
    router.state = "ok" =>
        /\ \A i \in 1..Len(routes) :
              /\ routes[i].method = "GET"
              /\ routes[i].endpoint = "page_handler"
              /\ routes[i].path \in DOMAIN router._pages
        /\ \A path \in DOMAIN router._pages : RouteCount(Route(path)) = registered
        /\ response.status # 0 =>
              (response.status = 404 <=> response.path \notin DOMAIN router._pages)

C4_Witness ==
    /\ router.state = "ok"
    /\ registered = 1
    /\ Len(routes) = 2
    /\ response.status = 404

\* the frontmatter the requested page had when the router was built
Frontmatter0(path) == router0._pages[path].frontmatter

\* C5 as stated: a page with no template value renders with the configured
\* default, a page with any template value in its frontmatter renders with
\* that value, and every later request of the path renders as the first did.
C5_AnyExplicitTemplateIsUsed ==
    response.status = 200 =>
        /\ response.template =
              (IF "template" \in DOMAIN Frontmatter0(response.path)
               THEN Format(Frontmatter0(response.path)["template"])
               ELSE default_template) \o <<".html">>
        /\ response.template = first[response.path]

\* C5 amended: a page whose template value is absent or falsy (None, the
\* empty string) renders with the configured default, a page with a truthy
\* template value renders with that value, and every later request of the
\* path renders as the first did.
C5_TruthyTemplateIsUsedElseDefault ==
    response.status = 200 =>
        /\ response.template =
              (IF /\ "template" \in DOMAIN Frontmatter0(response.path)
                  /\ Truthy(Frontmatter0(response.path)["template"])
               THEN Format(Frontmatter0(response.path)["template"])
               ELSE default_template) \o <<".html">>
        /\ response.template = first[response.path]

C5_Witness ==
    /\ response.status = 200
    /\ "template" \in DOMAIN Frontmatter0(response.path)
    /\ ~Truthy(Frontmatter0(response.path)["template"])
    /\ default_template = <<"base">>
    /\ response.template = <<"base", ".html">>

HasFileWithoutFrontmatter ==
    /\ content_loader.kind = "static"
    /\ \E i \in 1..Len(fs) : Count(fs[i].md, Delim) < 2

\* C6: when one file under the directory has no frontmatter block, load
\* raises the missing-frontmatter error and returns no page, wherever the
\* file comes in the traversal; constructing the router fails with that
\* error, and no router and no route exist.
C6_LoadIsAllOrNothing ==
    HasFileWithoutFrontmatter =>
        /\ loaded # NotCalled =>
              /\ loaded.kind = "raised"
              /\ loaded.error.kind = "ValueError"
        /\ router.state # "ok"
        /\ router.state = "failed" => router.error.kind = "ValueError"
        /\ routes = <<>>
        /\ registered = 0

C6_Witness ==
    /\ HasFileWithoutFrontmatter
    /\ Len(fs) = 2
    /\ Count(fs[1].md, Delim) >= 2
    /\ loaded.kind = "raised"
    /\ router.state = "failed"

\* the list of pages the loader returned to the constructor
LoadedPages == Load(content_loader, fs).pages

\* C9: the index has one Page per distinct path: its keys are the paths of
\* the loaded list, no two pages of the pages accessor share a path, and of
\* several loaded pages with one path the last is the one indexed and served.
C9_OnePagePerPathLastWins ==
    router.state = "ok" =>
        LET loadedPages == LoadedPages
            pages == Pages(router)
        IN  /\ DOMAIN router0._pages = {loadedPages[i].path : i \in 1..Len(loadedPages)}
            /\ DOMAIN router._pages = DOMAIN router0._pages
            /\ \A i, j \in 1..Len(pages) : i # j => pages[i].path # pages[j].path
            /\ {pages[i].path : i \in 1..Len(pages)} = DOMAIN router._pages
            /\ \A i \in 1..Len(loadedPages) :
                  (\A j \in (i + 1)..Len(loadedPages) :
                        loadedPages[j].path # loadedPages[i].path)
                     => router0._pages[loadedPages[i].path] = loadedPages[i]
            /\ response.status = 200 =>
                  response.template =
                      TemplateFile(WithTemplate(router0._pages[response.path],
                                                default_template))

C9_Witness ==
    /\ router.state = "ok"
    /\ Len(LoadedPages) = 2
    /\ LoadedPages[1].path = LoadedPages[2].path
    /\ LoadedPages[1] # LoadedPages[2]
    /\ response.status = 200

\* what a step may change of a page: the template entry of its frontmatter
SameButTemplate(old, new) ==
    /\ new.path = old.path
    /\ new.content = old.content
    /\ DOMAIN new.frontmatter \ {"template"} = DOMAIN old.frontmatter \ {"template"}
    /\ \A k \in DOMAIN old.frontmatter \ {"template"} :
          new.frontmatter[k] = old.frontmatter[k]

\* C10: once the router is built no register call and no request changes
\* the set or the order of the indexed paths, nor a page's path or content;
\* a request answered 404 changes nothing; a request answered 200 changes at
\* most the template entry of the frontmatter of the page it resolves.
C10_RequestsChangeOnlyTemplate ==
    [][router.state = "ok" =>
        /\ router'.state = "ok"
        /\ router'.order = router.order
        /\ DOMAIN router'._pages = DOMAIN router0._pages
        /\ router0' = router0
        /\ \A p \in DOMAIN router._pages :
              /\ SameButTemplate(router._pages[p], router'._pages[p])
              /\ p # response'.path => router'._pages[p] = router._pages[p]
        /\ (registered' # registered \/ loaded' # loaded) => router' = router
        /\ response'.status = 404 => (router' = router /\ first' = first)
      ]_vars

C10_Witness ==
    /\ router.state = "ok"
    /\ Cardinality(DOMAIN router._pages) = 2
    /\ registered = 2
    /\ response.status = 200
    /\ router # router0
    /\ "title" \in DOMAIN router._pages[response.path].frontmatter

\* the outcome of the request when nothing else runs
Sequential == PageHandler(router0, default_template, RacePath)

\* C8: however the reads and the write of page.template of concurrent
\* first requests of one page interleave, every request renders the
\* template a request running alone renders, and the page ends as it does
\* after a request running alone.
C8_RaceIsHarmless ==
    /\ \A t \in Threads : t_pc[t] = "done" => t_resp[t] = Sequential.response
    /\ (\A t \in Threads : t_pc[t] = "done") => router = Sequential.router

C8_Witness ==
    /\ \A t \in Threads : t_pc[t] = "done"
    /\ \A t \in Threads : t_falsy[t]

====
